---------------------------- MODULE Spec2Model ----------------------------
(***************************************************************************)
(* A model of the "复活" (Resurrection) idle-goods exchange platform:      *)
(* the entity records (entities.py), the JSON snapshot store and the five  *)
(* controllers (controllers.py), the process bootstrap (main.py) and the   *)
(* two administrative workflows of the GUI that write storage themselves   *)
(* (gui_ui.py: TypeManagementDialog.delete_type and                        *)
(* ApplicationApprovalDialog.approve_application / reject_application).    *)
(*                                                                         *)
(* Representation.                                                         *)
(*  - The parser accepts ASCII strings only, so the program's Chinese      *)
(*    string literals are written in English; each one is a definition     *)
(*    whose comment gives the literal of the source.                       *)
(*  - An entity object is a record of its attributes.  A JSON file is a    *)
(*    sequence of dicts; a dict is a function from key strings to values.  *)
(*  - str(uuid.uuid4()) is the next value of a counter that is never       *)
(*    reset: the ids it yields are pairwise distinct and differ from the   *)
(*    literal ids "1".."6" of the default item types.                      *)
(*  - Python's substring test (keyword in text) is computed on the         *)
(*    characters of the strings, which Chars lists for the texts used.     *)
(*  - None is the string NONE; Truthy is Python's truth test on str/None.  *)
(*  - call holds the last operation called, its arguments and the value    *)
(*    it returned ("True", "False" or NONE), or Raised when an exception   *)
(*    left it.                                                             *)
(***************************************************************************)
EXTENDS Naturals, Sequences, FiniteSets, TLC

VARIABLES
    pc,             \* "off": no process; "on": ResurrectionApp is constructed
    disk,           \* the data directory: file name -> [exists, data]
    users,          \* AuthController.users of the long-lived controller
    current_user,   \* AuthController.current_user: an index of users, 0 = None
    items,          \* ItemController.items
    item_types,     \* TypeController.item_types
    demands,        \* DemandController.demands
    applications,   \* ApplicationController.applications
    next_uuid,      \* how many uuids have been drawn so far, plus one
    peer,           \* a second process on the same data directory:
                    \* [pc, items], the items of its ItemController
    call            \* [op, args, ret]: the last call and its return value

vars == <<pc, disk, users, current_user, items, item_types, demands,
          applications, next_uuid, peer, call>>

memVars == <<users, current_user, items, item_types, demands, applications>>

-----------------------------------------------------------------------------
(* Bounds of the model. *)

MaxUsers == 2        \* registered users besides the seeded admin
MaxItems == 2        \* Items in the collection
MaxTypes == 1        \* ItemTypes added to the six defaults
MaxDemands == 2      \* Demands in the collection
MaxApps == 2         \* Applications in the collection
MaxLen == 2          \* records in a collection handed to save_data directly
MaxUuid == 4         \* uuids drawn in one behaviour

-----------------------------------------------------------------------------
(* String literals of the source. *)

NONE == "None"                      \* Python's None
RoleOrdinary == "ordinary"          \* "普通用户"
RoleAdmin == "administrator"        \* "管理员"
AdminName == "admin"                \* "admin"
AdminPassword == "123456"           \* "123456"
AdminContact == "sysadmin"          \* "系统管理员"
StatusPublished == "published"      \* "已发布"
StatusTraded == "traded"            \* "已交易"
StatusDelisted == "delisted"        \* "已下架"
AllTypes == "all types"             \* "所有类型"
AppPending == "pending"             \* "待处理"
AppApproved == "approved"           \* "通过"
AppRejected == "rejected"           \* "拒绝"
AppBecomeAdmin == "become admin"    \* "成为管理员"
AppModifyType == "modify item type" \* "修改物品类型"

FileNames == {"users", "items", "item_types", "demands", "applications"}

Truthy(s) == s # NONE /\ s # ""

\* str(uuid.uuid4()) for the n-th draw.
Uuid(n) == "uuid-" \o ToString(n)

\* dict.get(key, default)
Get(data, key, default) == IF key \in DOMAIN data THEN data[key] ELSE default

\* next((x for x in seq if cond(x)), None) as an index, given the set of the
\* indexes whose element satisfies cond: the least one, 0 standing for None.
FirstIndex(matching) ==
    IF matching = {} THEN 0
    ELSE CHOOSE i \in matching : \A j \in matching : i <= j

\* Mutation of RemoveAt: the first element is removed, whatever i.
RemoveAt_head(seq, i) == Tail(seq)

\* list.remove of the object at index i (objects compare by identity).
RemoveAt(seq, i) == [j \in 1..(Len(seq) - 1) |-> IF j < i THEN seq[j] ELSE seq[j + 1]]

\* [x for x in seq if P(x)] is SelectSeq(seq, P) of the Sequences module.

-----------------------------------------------------------------------------
(* entities.py *)

User(user_id, username, password, contact_info, role) ==
    [user_id |-> user_id, username |-> username, password |-> password,
     contact_info |-> contact_info, role |-> role]

User_to_dict(u) ==
    [user_id |-> u.user_id, username |-> u.username, password |-> u.password,
     contact_info |-> u.contact_info, role |-> u.role]

\* Mutation of User_from_dict: a missing role reads as administrator.
User_from_dict_default_admin(data) ==
    User(data["user_id"], data["username"], data["password"],
         data["contact_info"], Get(data, "role", RoleAdmin))

User_from_dict(data) ==
    User(data["user_id"], data["username"], data["password"],
         data["contact_info"], Get(data, "role", RoleOrdinary))

Item(item_id, item_name, description, item_type, contact_info, owner_id, image, status, now) ==
    [item_id |-> item_id, item_name |-> item_name, description |-> description,
     item_type |-> item_type, image |-> image, contact_info |-> contact_info,
     status |-> status, owner_id |-> owner_id, create_time |-> now]

Item_to_dict(i) ==
    [item_id |-> i.item_id, item_name |-> i.item_name,
     description |-> i.description, item_type |-> i.item_type,
     image |-> i.image, contact_info |-> i.contact_info, status |-> i.status,
     owner_id |-> i.owner_id, create_time |-> i.create_time]

\* Mutation of Item_from_dict: create_time is not restored from the dict.
Item_from_dict_new_time(data, now) ==
    Item(data["item_id"], data["item_name"], data["description"],
         data["item_type"], data["contact_info"], data["owner_id"],
         Get(data, "image", ""), Get(data, "status", StatusPublished), now)

\* now is datetime.now() at the time of the call.
Item_from_dict(data, now) ==
    LET item == Item(data["item_id"], data["item_name"], data["description"],
                     data["item_type"], data["contact_info"], data["owner_id"],
                     Get(data, "image", ""),
                     Get(data, "status", StatusPublished), now)
    IN  [item EXCEPT !.create_time = Get(data, "create_time", now)]

ItemType(type_id, type_name, attributes) ==
    [type_id |-> type_id, type_name |-> type_name, attributes |-> attributes]

ItemType_to_dict(t) ==
    [type_id |-> t.type_id, type_name |-> t.type_name,
     attributes |-> t.attributes]

ItemType_from_dict(data) ==
    ItemType(data["type_id"], data["type_name"], data["attributes"])

Demand(demand_id, demand_type, description, publisher_id, now) ==
    [demand_id |-> demand_id, demand_type |-> demand_type,
     description |-> description, publisher_id |-> publisher_id,
     create_time |-> now]

Demand_to_dict(d) ==
    [demand_id |-> d.demand_id, demand_type |-> d.demand_type,
     description |-> d.description, publisher_id |-> d.publisher_id,
     create_time |-> d.create_time]

Demand_from_dict(data, now) ==
    LET demand == Demand(data["demand_id"], data["demand_type"],
                         data["description"], data["publisher_id"], now)
    IN  [demand EXCEPT !.create_time = Get(data, "create_time", now)]

Application(application_id, app_type, content, applicant_id, app_status, now) ==
    [application_id |-> application_id, app_type |-> app_type,
     content |-> content, app_status |-> app_status,
     applicant_id |-> applicant_id, create_time |-> now]

Application_to_dict(a) ==
    [application_id |-> a.application_id, app_type |-> a.app_type,
     content |-> a.content, app_status |-> a.app_status,
     applicant_id |-> a.applicant_id, create_time |-> a.create_time]

Application_from_dict(data, now) ==
    LET application == Application(data["application_id"], data["app_type"],
                                   data["content"], data["applicant_id"],
                                   Get(data, "app_status", AppPending), now)
    IN  [application EXCEPT !.create_time = Get(data, "create_time", now)]

-----------------------------------------------------------------------------
(* controllers.py: DataManager *)

\* A file of data_dir: whether it exists, the list json.load would give, and
\* whether open(filepath, 'w') succeeds on it.
NoFiles ==
    [f \in FileNames |-> [exists |-> FALSE, data |-> <<>>, writable |-> TRUE]]

\* item.to_dict(): the method of the object's class, which its attributes tell.
to_dict(obj) ==
    CASE "user_id" \in DOMAIN obj -> User_to_dict(obj)
      [] "item_id" \in DOMAIN obj -> Item_to_dict(obj)
      [] "type_id" \in DOMAIN obj -> ItemType_to_dict(obj)
      [] "demand_id" \in DOMAIN obj -> Demand_to_dict(obj)
      [] "application_id" \in DOMAIN obj -> Application_to_dict(obj)

\* entity_class.from_dict(data); now is datetime.now() during the call.
from_dict(entity_class, data, now) ==
    CASE entity_class = "User" -> User_from_dict(data)
      [] entity_class = "Item" -> Item_from_dict(data, now)
      [] entity_class = "ItemType" -> ItemType_from_dict(data)
      [] entity_class = "Demand" -> Demand_from_dict(data, now)
      [] entity_class = "Application" -> Application_from_dict(data, now)

\* What a call returns to its caller when an exception leaves it.
Raised == "raise"

\* open(filepath, 'w') raises (PermissionError) and nothing is written.
save_raises(d, filename) == ~d[filename].writable

\* Mutation of save_data: the records already in the file are kept and the
\* new ones are written after them.
save_data_keep_stored(d, filename, data) ==
    IF save_raises(d, filename) THEN d
    ELSE LET dicts == [i \in 1..Len(data) |-> to_dict(data[i])]
             stored == d[filename].data
         IN  [d EXCEPT ![filename] =
                 [exists |-> TRUE, writable |-> TRUE,
                  data |-> stored \o
                           SelectSeq(dicts,
                               LAMBDA x : \A i \in 1..Len(stored) : stored[i] # x)]]

\* json.dump([item.to_dict() for item in data]) over the whole file; the
\* disk is left as it was when open raises.
save_data(d, filename, data) ==
    IF save_raises(d, filename) THEN d
    ELSE [d EXCEPT ![filename] =
             [exists |-> TRUE, writable |-> TRUE,
              data |-> [i \in 1..Len(data) |-> to_dict(data[i])]]]

\* Mutation of after_save: the handler reports success whatever save did.
after_save_swallowed(d, filename) == "True"

\* save_data(...) followed by return True, with no try around the save: the
\* handler returns True, or the exception of save_data leaves it.
after_save(d, filename) == IF save_raises(d, filename) THEN Raised ELSE "True"

\* [] when the file does not exist, else [from_dict(x) for x in json.load(f)].
load_data(d, filename, entity_class, now) ==
    IF ~d[filename].exists THEN <<>>
    ELSE [i \in 1..Len(d[filename].data) |->
             from_dict(entity_class, d[filename].data[i], now)]

-----------------------------------------------------------------------------
(* controllers.py: AuthController *)

Called(op, args, ret) == call' = [op |-> op, args |-> args, ret |-> ret]

\* Mutation of username_exists: only the newest User is compared.
username_exists_newest_only(us, username) ==
    Len(us) > 0 /\ us[Len(us)].username = username

\* any(user.username == username for user in self.users)
username_exists(us, username) == \E i \in 1..Len(us) : us[i].username = username

\* Mutation of initialize_admin: the admin is appended without the test.
initialize_admin_unconditional(us, d, n) ==
    LET us2 == Append(us, User(Uuid(n), AdminName, AdminPassword, AdminContact,
                               RoleAdmin))
    IN  [users |-> us2, disk |-> save_data(d, "users", us2),
         next_uuid |-> n + 1]

\* _initialize_admin: the users, the disk and the uuid counter it leaves.
initialize_admin(us, d, n) ==
    IF ~username_exists(us, AdminName)
    THEN LET admin_user == User(Uuid(n), AdminName, AdminPassword, AdminContact,
                                RoleAdmin)
             us2 == Append(us, admin_user)
         IN  [users |-> us2, disk |-> save_data(d, "users", us2),
              next_uuid |-> n + 1]
    ELSE [users |-> us, disk |-> d, next_uuid |-> n]

\* AuthController.__init__ (current_user = None is the 0 the caller sets).
AuthController_init(d, n, now) ==
    initialize_admin(load_data(d, "users", "User", now), d, n)

\* Mutation of login_match: the username is compared ignoring case.
login_match_ignore_case(u, username, password) ==
    LET Lower(s) == IF s = "Admin" THEN "admin" ELSE s
    IN  Lower(u.username) = Lower(username) /\ u.password = password

\* u.username == username and u.password == password
login_match(u, username, password) ==
    u.username = username /\ u.password = password

Register(username, password, contact_info) ==
    /\ pc = "on"
    /\ IF username_exists(users, username)
       THEN /\ Called("register", <<username, password, contact_info>>, "False")
            /\ UNCHANGED <<users, disk, next_uuid>>
       ELSE /\ Len(users) <= MaxUsers
            /\ next_uuid <= MaxUuid
            /\ users' = Append(users, User(Uuid(next_uuid), username, password,
                                           contact_info, RoleOrdinary))
            /\ disk' = save_data(disk, "users", users')
            /\ next_uuid' = next_uuid + 1
            /\ Called("register", <<username, password, contact_info>>,
                      after_save(disk, "users"))
    /\ UNCHANGED <<peer, pc, current_user, items, item_types, demands, applications>>

\* Mutation of Login: a failed login clears the session.
Login_failure_clears_session(username, password) ==
    /\ pc = "on"
    /\ LET user == FirstIndex({i \in 1..Len(users) :
                               login_match(users[i], username, password)})
       IN  IF user # 0
           THEN current_user' = user /\ Called("login", <<username, password>>, "True")
           ELSE current_user' = 0 /\ Called("login", <<username, password>>, "False")
    /\ UNCHANGED <<peer, pc, disk, users, items, item_types, demands, applications,
                   next_uuid>>

Login(username, password) ==
    /\ pc = "on"
    /\ LET user == FirstIndex({i \in 1..Len(users) :
                               login_match(users[i], username, password)})
       IN  IF user # 0
           THEN current_user' = user /\ Called("login", <<username, password>>, "True")
           ELSE UNCHANGED current_user /\ Called("login", <<username, password>>, "False")
    /\ UNCHANGED <<peer, pc, disk, users, items, item_types, demands, applications,
                   next_uuid>>

Logout ==
    /\ pc = "on"
    /\ current_user' = 0
    /\ Called("logout", <<>>, NONE)
    /\ UNCHANGED <<peer, pc, disk, users, items, item_types, demands, applications,
                   next_uuid>>

\* Mutation of modify_user_fields: the fields are assigned whatever is passed.
modify_user_fields_always(u, password, contact_info) ==
    [u EXCEPT !.password = password, !.contact_info = contact_info]

\* if password: ...password = password; if contact_info: ... = contact_info
modify_user_fields(u, password, contact_info) ==
    [u EXCEPT !.password = IF Truthy(password) THEN password ELSE @,
              !.contact_info = IF Truthy(contact_info) THEN contact_info ELSE @]

\* modify_user_info; the arguments default to None.
ModifyUserInfo(password, contact_info) ==
    /\ pc = "on"
    /\ IF current_user = 0
       THEN /\ Called("modify_user_info", <<password, contact_info>>, "False")
            /\ UNCHANGED <<users, disk>>
       ELSE /\ users' = [users EXCEPT ![current_user] =
                            modify_user_fields(@, password, contact_info)]
            /\ disk' = save_data(disk, "users", users')
            /\ Called("modify_user_info", <<password, contact_info>>,
                      after_save(disk, "users"))
    /\ UNCHANGED <<peer, pc, current_user, items, item_types, demands, applications,
                   next_uuid>>

-----------------------------------------------------------------------------
(* controllers.py: ItemController *)

\* Mutation of owned_by: the owner is not compared.
owned_by_anyone(i, item_id, user_id) == i.item_id = item_id

\* i.item_id == item_id and i.owner_id == user_id
owned_by(i, item_id, user_id) == i.item_id = item_id /\ i.owner_id = user_id

\* for key, value in kwargs.items(): if hasattr(item, key): setattr(...)
\* kwargs is a function from keys to values; the attributes of an Item object
\* are the fields of its record.
apply_kwargs(item, kwargs) ==
    [k \in DOMAIN item |-> IF k \in DOMAIN kwargs THEN kwargs[k] ELSE item[k]]

\* add_item; now is datetime.now() in Item.__init__.
AddItem(item_name, description, item_type, contact_info, owner_id, image, now) ==
    /\ pc = "on"
    /\ Len(items) < MaxItems
    /\ next_uuid <= MaxUuid
    /\ items' = Append(items, Item(Uuid(next_uuid), item_name, description,
                                   item_type, contact_info, owner_id, image,
                                   StatusPublished, now))
    /\ disk' = save_data(disk, "items", items')
    /\ next_uuid' = next_uuid + 1
    /\ Called("add_item", <<item_name, description, item_type, contact_info,
                            owner_id, image>>, after_save(disk, "items"))
    /\ UNCHANGED <<peer, pc, users, current_user, item_types, demands, applications>>

DeleteItem(item_id, user_id) ==
    /\ pc = "on"
    /\ LET item == FirstIndex({i \in 1..Len(items) :
                                  owned_by(items[i], item_id, user_id)})
       IN  IF item # 0
           THEN /\ items' = RemoveAt(items, item)
                /\ disk' = save_data(disk, "items", items')
                /\ Called("delete_item", <<item_id, user_id>>,
                          after_save(disk, "items"))
           ELSE /\ Called("delete_item", <<item_id, user_id>>, "False")
                /\ UNCHANGED <<items, disk>>
    /\ UNCHANGED <<peer, pc, users, current_user, item_types, demands, applications,
                   next_uuid>>

ModifyItem(item_id, user_id, kwargs) ==
    /\ pc = "on"
    /\ LET item == FirstIndex({i \in 1..Len(items) :
                                  owned_by(items[i], item_id, user_id)})
       IN  IF item = 0
           THEN /\ Called("modify_item", <<item_id, user_id, kwargs>>, "False")
                /\ UNCHANGED <<items, disk>>
           ELSE /\ items' = [items EXCEPT ![item] = apply_kwargs(@, kwargs)]
                /\ disk' = save_data(disk, "items", items')
                /\ Called("modify_item", <<item_id, user_id, kwargs>>,
                          after_save(disk, "items"))
    /\ UNCHANGED <<peer, pc, users, current_user, item_types, demands, applications,
                   next_uuid>>

\* The characters of a string, for the texts and keywords of the model.
Chars(s) ==
    CASE s = "" -> <<>>
      [] s = "a" -> <<"a">>
      [] s = "b" -> <<"b">>
      [] s = "ab" -> <<"a", "b">>
      [] s = "ba" -> <<"b", "a">>
      [] s = "A" -> <<"A">>

\* keyword in text (str.__contains__)
Contains(text, keyword) ==
    LET t == Chars(text)
        k == Chars(keyword)
    IN  \E i \in 0..Len(t) :
            i + Len(k) <= Len(t) /\ SubSeq(t, i + 1, i + Len(k)) = k

is_published(i) == i.status = StatusPublished

\* get_all_items
get_all_items(its) == SelectSeq(its, is_published)

\* Mutation of search_items: the final status filter is missing.
search_items_any_status(its, item_type, keyword) ==
    LET results1 == IF Truthy(item_type) /\ item_type # AllTypes
                    THEN SelectSeq(its, LAMBDA i : i.item_type = item_type)
                    ELSE its
    IN  IF Truthy(keyword)
        THEN SelectSeq(results1, LAMBDA i : \/ Contains(i.item_name, keyword)
                                            \/ Contains(i.description, keyword))
        ELSE results1

\* Mutation of search_items: the keyword is looked for in the name only.
search_items_name_only(its, item_type, keyword) ==
    LET results1 == IF Truthy(item_type) /\ item_type # AllTypes
                    THEN SelectSeq(its, LAMBDA i : i.item_type = item_type)
                    ELSE its
        results2 == IF Truthy(keyword)
                    THEN SelectSeq(results1,
                             LAMBDA i : Contains(i.item_name, keyword))
                    ELSE results1
    IN  SelectSeq(results2, is_published)

\* search_items; the arguments default to None.
search_items(its, item_type, keyword) ==
    LET results1 == IF Truthy(item_type) /\ item_type # AllTypes
                    THEN SelectSeq(its, LAMBDA i : i.item_type = item_type)
                    ELSE its
        results2 == IF Truthy(keyword)
                    THEN SelectSeq(results1,
                             LAMBDA i : \/ Contains(i.item_name, keyword)
                                        \/ Contains(i.description, keyword))
                    ELSE results1
    IN  SelectSeq(results2, is_published)

\* Mutation of get_user_items: only published Items are listed.
get_user_items_published_only(its, user_id) ==
    SelectSeq(its, LAMBDA i : i.owner_id = user_id /\ i.status = StatusPublished)

\* get_user_items
get_user_items(its, user_id) == SelectSeq(its, LAMBDA i : i.owner_id = user_id)

-----------------------------------------------------------------------------
(* controllers.py: TypeController construction *)

DefaultTypes ==
    << ItemType("1", "book", <<"author", "publisher", "ISBN", "condition">>),
       ItemType("2", "dorm goods", <<"brand", "condition", "size">>),
       ItemType("3", "electronics", <<"brand", "model", "condition">>),
       ItemType("4", "clothing", <<"brand", "size", "condition">>),
       ItemType("5", "sports", <<"brand", "condition">>),
       ItemType("6", "other", <<"note">>) >>

\* Mutation of initialize_default_types: the defaults are added without the
\* test.
initialize_default_types_always(ts, d) ==
    LET ts2 == ts \o DefaultTypes
    IN  [item_types |-> ts2, disk |-> save_data(d, "item_types", ts2)]

\* _initialize_default_types: the types and the disk it leaves.
initialize_default_types(ts, d) ==
    IF ts = <<>>
    THEN LET ts2 == ts \o DefaultTypes
         IN  [item_types |-> ts2,
              disk |-> save_data(d, "item_types", ts2)]
    ELSE [item_types |-> ts, disk |-> d]

TypeController_init(d, now) ==
    initialize_default_types(load_data(d, "item_types", "ItemType", now), d)

\* Mutation of type_name_exists: the duplicate test always answers no.
type_name_exists_never(ts, type_name) == FALSE

\* any(t.type_name == type_name for t in self.item_types)
type_name_exists(ts, type_name) ==
    \E i \in 1..Len(ts) : ts[i].type_name = type_name

AddItemType(type_name, attributes) ==
    /\ pc = "on"
    /\ IF type_name_exists(item_types, type_name)
       THEN /\ Called("add_item_type", <<type_name, attributes>>, "False")
            /\ UNCHANGED <<item_types, disk, next_uuid>>
       ELSE /\ Len(item_types) < Len(DefaultTypes) + MaxTypes
            /\ next_uuid <= MaxUuid
            /\ item_types' = Append(item_types,
                                    ItemType(Uuid(next_uuid), type_name, attributes))
            /\ disk' = save_data(disk, "item_types", item_types')
            /\ next_uuid' = next_uuid + 1
            /\ Called("add_item_type", <<type_name, attributes>>,
                      after_save(disk, "item_types"))
    /\ UNCHANGED <<peer, pc, users, current_user, items, demands, applications>>

\* Mutation of modify_type_fields: the fields are assigned whatever is passed.
modify_type_fields_always(t, type_name, attributes) ==
    [t EXCEPT !.type_name = type_name, !.attributes = attributes]

\* if type_name: ...type_name = type_name; if attributes: ... = attributes
modify_type_fields(t, type_name, attributes) ==
    [t EXCEPT !.type_name = IF Truthy(type_name) THEN type_name ELSE @,
              !.attributes = IF Truthy(attributes) THEN attributes ELSE @]

\* modify_item_type; type_name and attributes default to None.
ModifyItemType(type_id, type_name, attributes) ==
    /\ pc = "on"
    /\ LET item_type == FirstIndex({i \in 1..Len(item_types) :
                                       item_types[i].type_id = type_id})
       IN  IF item_type = 0
           THEN /\ Called("modify_item_type", <<type_id, type_name, attributes>>,
                          "False")
                /\ UNCHANGED <<item_types, disk>>
           ELSE /\ item_types' = [item_types EXCEPT ![item_type] =
                      modify_type_fields(@, type_name, attributes)]
                /\ disk' = save_data(disk, "item_types", item_types')
                /\ Called("modify_item_type", <<type_id, type_name, attributes>>,
                          after_save(disk, "item_types"))
    /\ UNCHANGED <<peer, pc, users, current_user, items, demands, applications,
                   next_uuid>>

\* get_all_types: the live list.
get_all_types(ts) == ts

-----------------------------------------------------------------------------
(* gui_ui.py: TypeManagementDialog.delete_type, confirmed by the user.     *)
(* types is the controller's own list; the Items are those of a new        *)
(* ItemController, loaded from items.json at time now.  ret is "True" for  *)
(* the success message and "False" for either error message.               *)

\* Mutation of items_using_type: no Item is ever found to use the type.
items_using_type_none(item_controller_items, type_name) == <<>>

\* [item for item in item_controller.items if item.item_type == ...type_name]
items_using_type(item_controller_items, type_name) ==
    SelectSeq(item_controller_items, LAMBDA i : i.item_type = type_name)

DeleteType(type_id, now) ==
    /\ pc = "on"
    /\ LET types == get_all_types(item_types)
           type_to_delete == FirstIndex({i \in 1..Len(types) :
                                            types[i].type_id = type_id})
           item_controller_items == load_data(disk, "items", "Item", now)
           using == items_using_type(item_controller_items,
                                     types[type_to_delete].type_name)
       IN  IF type_to_delete # 0
           THEN IF using # <<>>
                THEN /\ Called("delete_type", <<type_id>>, "False")
                     /\ UNCHANGED <<item_types, disk>>
                ELSE /\ item_types' = RemoveAt(types, type_to_delete)
                     /\ disk' = save_data(disk, "item_types", item_types')
                     /\ Called("delete_type", <<type_id>>,
                               after_save(disk, "item_types"))
           ELSE /\ Called("delete_type", <<type_id>>, "False")
                /\ UNCHANGED <<item_types, disk>>
    /\ UNCHANGED <<peer, pc, users, current_user, items, demands, applications,
                   next_uuid>>

-----------------------------------------------------------------------------
(* controllers.py: DemandController *)

\* add_demand; now is datetime.now() in Demand.__init__.
AddDemand(demand_type, description, publisher_id, now) ==
    /\ pc = "on"
    /\ Len(demands) < MaxDemands
    /\ next_uuid <= MaxUuid
    /\ demands' = Append(demands, Demand(Uuid(next_uuid), demand_type,
                                         description, publisher_id, now))
    /\ disk' = save_data(disk, "demands", demands')
    /\ next_uuid' = next_uuid + 1
    /\ Called("add_demand", <<demand_type, description, publisher_id>>,
              after_save(disk, "demands"))
    /\ UNCHANGED <<peer, pc, users, current_user, items, item_types, applications>>

\* Mutation of get_all_demands: the newest Demand comes first.
get_all_demands_newest_first(ds) ==
    [i \in 1..Len(ds) |-> ds[Len(ds) + 1 - i]]

\* get_all_demands
get_all_demands(ds) == ds

\* get_user_demands
get_user_demands(ds, user_id) ==
    SelectSeq(ds, LAMBDA d : d.publisher_id = user_id)

-----------------------------------------------------------------------------
(* controllers.py: ApplicationController *)

\* add_application; now is datetime.now() in Application.__init__.
AddApplication(app_type, content, applicant_id, now) ==
    /\ pc = "on"
    /\ Len(applications) < MaxApps
    /\ next_uuid <= MaxUuid
    /\ applications' = Append(applications,
                              Application(Uuid(next_uuid), app_type, content,
                                          applicant_id, AppPending, now))
    /\ disk' = save_data(disk, "applications", applications')
    /\ next_uuid' = next_uuid + 1
    /\ Called("add_application", <<app_type, content, applicant_id>>,
              after_save(disk, "applications"))
    /\ UNCHANGED <<peer, pc, users, current_user, items, item_types, demands>>

\* get_pending_applications
get_pending_applications(apps) ==
    SelectSeq(apps, LAMBDA a : a.app_status = AppPending)

\* process_application: its return value, the list and the disk it leaves.
\* Mutation of process_application: only a pending Application is decided.
process_application_pending_only(apps, d, application_id, status) ==
    LET application == FirstIndex({i \in 1..Len(apps) :
                                      apps[i].application_id = application_id})
    IN  IF application = 0 \/ apps[application].app_status # AppPending
        THEN [ret |-> "False", applications |-> apps, disk |-> d]
        ELSE LET apps2 == [apps EXCEPT ![application].app_status = status]
             IN  [ret |-> after_save(d, "applications"), applications |-> apps2,
                  disk |-> save_data(d, "applications", apps2)]

process_application(apps, d, application_id, status) ==
    LET application == FirstIndex({i \in 1..Len(apps) :
                                      apps[i].application_id = application_id})
    IN  IF application = 0
        THEN [ret |-> "False", applications |-> apps, disk |-> d]
        ELSE LET apps2 == [apps EXCEPT ![application].app_status = status]
             IN  [ret |-> after_save(d, "applications"), applications |-> apps2,
                  disk |-> save_data(d, "applications", apps2)]

ProcessApplication(application_id, status) ==
    /\ pc = "on"
    /\ LET r == process_application(applications, disk, application_id, status)
       IN  /\ applications' = r.applications
           /\ disk' = r.disk
           /\ Called("process_application", <<application_id, status>>, r.ret)
    /\ UNCHANGED <<peer, pc, users, current_user, items, item_types, demands,
                   next_uuid>>

-----------------------------------------------------------------------------
(* gui_ui.py: ApplicationApprovalDialog.  app_id is the selected row's id. *)
(* ret is "True" for the success message, "False" for an error or warning  *)
(* message.  approve_application builds an AuthController of its own over  *)
(* the same DataManager; the long-lived controller's users are not         *)
(* touched.  The load_applications that follows a success only reads.      *)

\* Mutation of already_processed: the status is not looked at.
already_processed_never(application) == FALSE

\* if application.app_status != "待处理": (warning, return)
already_processed(application) == application.app_status # AppPending

\* Mutation of ApproveApplication: the status is decided before the role is
\* written.
ApproveApplication_decide_first(app_id, now) ==
    /\ pc = "on"
    /\ LET application == FirstIndex({i \in 1..Len(applications) :
                                         applications[i].application_id = app_id})
       IN  IF application = 0
           THEN /\ Called("approve_application", <<app_id>>, "False")
                /\ UNCHANGED <<applications, disk, next_uuid>>
           ELSE IF already_processed(applications[application])
           THEN /\ Called("approve_application", <<app_id>>, "False")
                /\ UNCHANGED <<applications, disk, next_uuid>>
           ELSE LET r0 == process_application(applications, disk, app_id,
                                              AppApproved)
                    auth_controller == AuthController_init(r0.disk, next_uuid, now)
                    user == FirstIndex({i \in 1..Len(auth_controller.users) :
                                auth_controller.users[i].user_id =
                                    applications[application].applicant_id})
                    promoted == [auth_controller.users EXCEPT
                                    ![user].role = RoleAdmin]
                    writes_users ==
                        /\ r0.ret = "True"
                        /\ applications[application].app_type = AppBecomeAdmin
                        /\ user # 0
                IN  /\ applications' = r0.applications
                    /\ disk' = IF writes_users
                               THEN save_data(auth_controller.disk, "users", promoted)
                               ELSE r0.disk
                    /\ next_uuid' = next_uuid
                    /\ Called("approve_application", <<app_id>>,
                              IF writes_users
                              THEN after_save(auth_controller.disk, "users")
                              ELSE r0.ret)
    /\ UNCHANGED <<peer, pc, users, current_user, items, item_types, demands>>

ApproveApplication(app_id, now) ==
    /\ pc = "on"
    /\ LET application == FirstIndex({i \in 1..Len(applications) :
                                         applications[i].application_id = app_id})
       IN  IF application = 0
           THEN /\ Called("approve_application", <<app_id>>, "False")
                /\ UNCHANGED <<applications, disk, next_uuid>>
           ELSE IF already_processed(applications[application])
           THEN /\ Called("approve_application", <<app_id>>, "False")
                /\ UNCHANGED <<applications, disk, next_uuid>>
           ELSE LET auth_controller == AuthController_init(disk, next_uuid, now)
                    user == FirstIndex({i \in 1..Len(auth_controller.users) :
                                auth_controller.users[i].user_id =
                                    applications[application].applicant_id})
                    promoted == [auth_controller.users EXCEPT
                                    ![user].role = RoleAdmin]
                    disk1 == IF applications[application].app_type = AppBecomeAdmin
                             THEN IF user # 0
                                  THEN save_data(auth_controller.disk, "users",
                                                 promoted)
                                  ELSE auth_controller.disk
                             ELSE disk
                    users_save_raises ==
                        /\ applications[application].app_type = AppBecomeAdmin
                        /\ user # 0
                        /\ save_raises(auth_controller.disk, "users")
                    r == IF users_save_raises
                         THEN [ret |-> Raised, applications |-> applications,
                               disk |-> disk1]
                         ELSE process_application(applications, disk1, app_id,
                                                  AppApproved)
                IN  /\ applications' = r.applications
                    /\ disk' = r.disk
                    /\ next_uuid' =
                          IF applications[application].app_type = AppBecomeAdmin
                          THEN auth_controller.next_uuid ELSE next_uuid
                    /\ Called("approve_application", <<app_id>>, r.ret)
    /\ UNCHANGED <<peer, pc, users, current_user, items, item_types, demands>>

RejectApplication(app_id) ==
    /\ pc = "on"
    /\ LET application == FirstIndex({i \in 1..Len(applications) :
                                         applications[i].application_id = app_id})
       IN  IF application = 0
           THEN /\ Called("reject_application", <<app_id>>, "False")
                /\ UNCHANGED <<applications, disk>>
           ELSE IF already_processed(applications[application])
           THEN /\ Called("reject_application", <<app_id>>, "False")
                /\ UNCHANGED <<applications, disk>>
           ELSE LET r == process_application(applications, disk, app_id,
                                             AppRejected)
                IN  /\ applications' = r.applications
                    /\ disk' = r.disk
                    /\ Called("reject_application", <<app_id>>, r.ret)
    /\ UNCHANGED <<peer, pc, users, current_user, items, item_types, demands,
                   next_uuid>>

-----------------------------------------------------------------------------
(* main.py: the process *)

\* ResurrectionApp.__init__: the five controllers are built over one
\* DataManager, in this order; now is the clock while they load.
\* When the save of a seed raises, the exception leaves the constructor and
\* the program does not start.
Start(now) ==
    /\ pc = "off"
    /\ LET auth == AuthController_init(disk, next_uuid, now)
           tc == TypeController_init(auth.disk, now)
           auth_raises ==
               /\ ~username_exists(load_data(disk, "users", "User", now), AdminName)
               /\ save_raises(disk, "users")
           tc_raises ==
               /\ load_data(auth.disk, "item_types", "ItemType", now) = <<>>
               /\ save_raises(auth.disk, "item_types")
       IN  IF auth_raises \/ tc_raises
           THEN /\ pc' = "off"
                /\ next_uuid' = IF auth_raises THEN next_uuid ELSE auth.next_uuid
                /\ disk' = IF auth_raises THEN disk ELSE auth.disk
                /\ Called("start", <<>>, Raised)
                /\ UNCHANGED memVars
                /\ UNCHANGED peer
           ELSE /\ pc' = "on"
                /\ users' = auth.users
                /\ current_user' = 0
                /\ next_uuid' = auth.next_uuid
                /\ items' = load_data(auth.disk, "items", "Item", now)
                /\ item_types' = tc.item_types
                /\ demands' = load_data(tc.disk, "demands", "Demand", now)
                /\ applications' =
                      load_data(tc.disk, "applications", "Application", now)
                /\ disk' = tc.disk
                /\ Called("start", <<>>, NONE)
                /\ UNCHANGED peer

-----------------------------------------------------------------------------
(* A second process: another ItemController, with a DataManager of its own *)
(* on the same data directory.                                             *)

\* ItemController.__init__ in the second process.
PeerStart(now) ==
    /\ peer.pc = "off"
    /\ peer' = [pc |-> "on", items |-> load_data(disk, "items", "Item", now)]
    /\ Called("peer.start", <<>>, NONE)
    /\ UNCHANGED <<pc, disk, users, current_user, items, item_types, demands,
                   applications, next_uuid>>

PeerExit ==
    /\ peer.pc = "on"
    /\ peer' = [pc |-> "off", items |-> <<>>]
    /\ Called("peer.exit", <<>>, NONE)
    /\ UNCHANGED <<pc, disk, users, current_user, items, item_types, demands,
                   applications, next_uuid>>

\* add_item in the second process.
PeerAddItem(item_name, description, item_type, contact_info, owner_id, image, now) ==
    /\ peer.pc = "on"
    /\ Len(peer.items) < MaxItems
    /\ next_uuid <= MaxUuid
    /\ peer' = [peer EXCEPT !.items =
                   Append(@, Item(Uuid(next_uuid), item_name, description,
                                  item_type, contact_info, owner_id, image,
                                  StatusPublished, now))]
    /\ disk' = save_data(disk, "items", peer'.items)
    /\ next_uuid' = next_uuid + 1
    /\ Called("peer.add_item", <<item_name, description, item_type,
                                 contact_info, owner_id, image>>,
              after_save(disk, "items"))
    /\ UNCHANGED <<pc, users, current_user, items, item_types, demands,
                   applications>>

\* delete_item in the second process.
PeerDeleteItem(item_id, user_id) ==
    /\ peer.pc = "on"
    /\ LET item == FirstIndex({i \in 1..Len(peer.items) :
                                  owned_by(peer.items[i], item_id, user_id)})
       IN  IF item # 0
           THEN /\ peer' = [peer EXCEPT !.items = RemoveAt(@, item)]
                /\ disk' = save_data(disk, "items", peer'.items)
                /\ Called("peer.delete_item", <<item_id, user_id>>,
                          after_save(disk, "items"))
           ELSE /\ Called("peer.delete_item", <<item_id, user_id>>, "False")
                /\ UNCHANGED <<peer, disk>>
    /\ UNCHANGED <<pc, users, current_user, items, item_types, demands,
                   applications, next_uuid>>

\* The environment: the permissions of a file of data_dir change.
Chmod(filename, writable) ==
    /\ disk[filename].writable # writable
    /\ disk' = [disk EXCEPT ![filename].writable = writable]
    /\ Called("chmod", <<filename, writable>>, NONE)
    /\ UNCHANGED <<peer, pc, users, current_user, items, item_types, demands,
                   applications, next_uuid>>

\* The process ends: every controller object is gone, the files stay.
Exit ==
    /\ pc = "on"
    /\ pc' = "off"
    /\ users' = <<>>
    /\ current_user' = 0
    /\ items' = <<>>
    /\ item_types' = <<>>
    /\ demands' = <<>>
    /\ applications' = <<>>
    /\ Called("exit", <<>>, NONE)
    /\ UNCHANGED <<disk, next_uuid, peer>>

Init ==
    /\ pc = "off"
    /\ disk = NoFiles
    /\ users = <<>>
    /\ current_user = 0
    /\ items = <<>>
    /\ item_types = <<>>
    /\ demands = <<>>
    /\ applications = <<>>
    /\ next_uuid = 1
    /\ peer = [pc |-> "off", items |-> <<>>]
    /\ call = [op |-> "none", args |-> <<>>, ret |-> NONE]

\* The collection of the long-lived controller that owns a file.
Memory(f) ==
    CASE f = "users" -> users
      [] f = "items" -> items
      [] f = "item_types" -> item_types
      [] f = "demands" -> demands
      [] f = "applications" -> applications

-----------------------------------------------------------------------------
(* The Auth Service: register, login, logout, modify_user_info, restarts. *)

Usernames == {"admin", "Admin", "adm", "bob"}
Passwords == {"123456", "pw"}

NextAuth ==
    \/ Start(2)
    \/ Exit
    \/ \E u \in Usernames, p \in Passwords : Register(u, p, "c1")
    \/ \E u \in Usernames, p \in Passwords : Login(u, p)
    \/ Logout
    \/ \E p \in {NONE, "", "pw"}, c \in {NONE, "", "c2"} : ModifyUserInfo(p, c)

SpecAuth == Init /\ [][NextAuth]_vars

-----------------------------------------------------------------------------
(* Properties of the Auth Service. *)

StoredUsers == disk["users"].data

NamesOf(us) == {us[i].username : i \in 1..Len(us)}

NoTwoSameName(us) ==
    \A i, j \in 1..Len(us) : us[i].username = us[j].username => i = j

\* C1: no two Users of the collection (in memory or in the stored snapshot)
\* have the same username, under register, login, logout, editProfile and
\* restarts; a stored username stays stored and is in memory whenever the
\* service is up, and a register call whose username is in the collection
\* returns failure and changes nothing, while an accepted one is in the
\* collection and in storage afterwards.
C1_UsernameUnique ==
    /\ [](/\ NoTwoSameName(users)
          /\ NoTwoSameName(StoredUsers)
          /\ (pc = "on" => NamesOf(StoredUsers) \subseteq NamesOf(users)))
    /\ [][/\ NamesOf(StoredUsers) \subseteq NamesOf(StoredUsers')
          /\ (call'.op = "register" /\ call'.args[1] \in NamesOf(users))
                => (call'.ret = "False" /\ users' = users /\ disk' = disk)
          /\ (call'.op = "register" /\ call'.ret = "True")
                => (/\ call'.args[1] \in NamesOf(users')
                    /\ call'.args[1] \in NamesOf(StoredUsers'))]_vars

\* C1 witness: a second register of an accepted, non-seeded username has
\* just failed.
C1_Witness ==
    /\ call.op = "register" /\ call.ret = "False"
    /\ call.args[1] # AdminName
    /\ \E i \in 2..Len(users) : users[i].username = call.args[1]

\* C2: login(username, password) returns success iff some User of the
\* collection has exactly that username and exactly that password, and on
\* success the current session is such a User.
C2_LoginExact ==
    call.op = "login" =>
        /\ call.ret \in {"True", "False"}
        /\ call.ret = "True" <=>
              \E i \in 1..Len(users) : /\ users[i].username = call.args[1]
                                       /\ users[i].password = call.args[2]
        /\ call.ret = "True" =>
              /\ current_user \in 1..Len(users)
              /\ users[current_user].username = call.args[1]
              /\ users[current_user].password = call.args[2]

\* C2 witness: a login just failed on a username that differs from a stored
\* one in case only, with that User's password.
C2_Witness ==
    /\ call.op = "login" /\ call.ret = "False"
    /\ call.args[1] = "Admin"
    /\ \E i \in 1..Len(users) : /\ users[i].username = "admin"
                                /\ users[i].password = call.args[2]

\* C2 witness of the success case: a login of a registered User succeeded.
C2_WitnessSuccess ==
    /\ call.op = "login" /\ call.ret = "True" /\ current_user > 1

AdminIndexes(us) == {i \in 1..Len(us) : us[i].username = AdminName}

\* C7: whenever the Auth Service is up, its collection holds exactly one User
\* named "admin"; construction from empty storage yields exactly the seeded
\* admin with role administrator and stores it; construction from storage
\* that holds an admin loads the stored Users as they are and leaves storage
\* unchanged.
C7_OneAdmin ==
    /\ [](pc = "on" => Cardinality(AdminIndexes(users)) = 1)
    /\ [][call'.op = "start" =>
            /\ ~disk["users"].exists =>
                  /\ Len(users') = 1
                  /\ users'[1].username = AdminName
                  /\ users'[1].role = RoleAdmin
                  /\ disk'["users"].exists
                  /\ disk'["users"].data = users'
            /\ AdminIndexes(StoredUsers) # {} =>
                  /\ users' = StoredUsers
                  /\ disk'["users"] = disk["users"]]_vars

\* C7 witness: the service was constructed again from storage that already
\* held the admin and a registered User.
C7_Witness ==
    /\ call.op = "start"
    /\ Len(users) > 1
    /\ next_uuid > 2

\* C14: editProfile(newPassword, newContact) without an active session
\* fails and changes nothing; with an active session it returns success,
\* changes only the session User, sets the password only if a non-empty
\* newPassword is supplied and the contact only if a non-empty newContact is
\* supplied, and leaves every other field and every other User unchanged.
C14_EditProfile ==
    [][call'.op = "modify_user_info" =>
        LET newPassword == call'.args[1]
            newContact == call'.args[2]
            supplied(v) == v # NONE /\ v # ""
        IN  /\ current_user' = current_user
            /\ current_user = 0 =>
                  call'.ret = "False" /\ users' = users /\ disk' = disk
            /\ current_user # 0 =>
                  /\ call'.ret = "True"
                  /\ Len(users') = Len(users)
                  /\ \A i \in 1..Len(users) :
                        i # current_user => users'[i] = users[i]
                  /\ LET old == users[current_user]
                         new == users'[current_user]
                     IN  /\ new.user_id = old.user_id
                         /\ new.username = old.username
                         /\ new.role = old.role
                         /\ new.password = IF supplied(newPassword)
                                           THEN newPassword ELSE old.password
                         /\ new.contact_info = IF supplied(newContact)
                                               THEN newContact
                                               ELSE old.contact_info]_vars

\* C14 witness: the logged-in administrator has just changed the password
\* with an empty newContact; the contact is the seeded one and another User
\* is registered.
C14_Witness ==
    /\ call.op = "modify_user_info" /\ call.ret = "True"
    /\ call.args = <<"pw", "">>
    /\ current_user # 0
    /\ users[current_user].password = "pw"
    /\ users[current_user].contact_info = AdminContact
    /\ Len(users) > 1

\* C15: a login call that finds no User with that username and password
\* returns failure and leaves the session as it was before the call (empty,
\* or the User logged in before), and the User collection and its snapshot
\* unchanged.
C15_LoginFailureFrame ==
    [][(/\ call'.op = "login"
        /\ ~\E i \in 1..Len(users) :
               /\ users[i].username = call'.args[1]
               /\ users[i].password = call'.args[2])
          => /\ call'.ret = "False"
             /\ current_user' = current_user
             /\ users' = users
             /\ disk' = disk]_vars

\* C15 witness: a login with a wrong password has just failed while another
\* User, registered after the seed, is logged in.
C15_Witness ==
    /\ call.op = "login" /\ call.ret = "False"
    /\ current_user > 1
    /\ \E i \in 1..Len(users) : /\ users[i].username = call.args[1]
                                /\ users[i].password # call.args[2]

-----------------------------------------------------------------------------
(* The Listing Service: publish, delete, modify with ownership, restarts. *)

OwnerIds == {"u1", "u2"}
ItemIdArgs == {Uuid(2), Uuid(3), "no such id"}

\* fieldUpdates: an owner, a key that no Item has, statuses (one of them no status of the data model), and the four fields
\* the GUI's ModifyItemDialog.save_changes sends.  The keys item_id and
\* user_id cannot be keyword arguments: they name the positional parameters
\* of modify_item.
ItemsKwargs ==
    {[owner_id |-> "u2"], [price |-> "9"],
     [status |-> StatusTraded], [status |-> StatusPublished],
     [status |-> "lost"],
     [item_name |-> "ab", description |-> "b", contact_info |-> "c2",
      status |-> StatusDelisted]}

NextItems ==
    \/ Start(2)
    \/ Exit
    \/ \E o \in OwnerIds : AddItem("a", "b", "book", "c1", o, "", 1)
    \/ \E i \in ItemIdArgs, u \in OwnerIds : DeleteItem(i, u)
    \/ \E i \in ItemIdArgs, u \in OwnerIds, kw \in ItemsKwargs : ModifyItem(i, u, kw)

SpecItems == Init /\ [][NextItems]_vars

\* The Listing Service as buyers see it: texts, types and statuses vary.
SearchKwargs ==
    {[status |-> StatusTraded], [status |-> StatusDelisted],
     [status |-> StatusPublished], [item_type |-> "other"]}

TypeFilters == {NONE, "", AllTypes, "book", "other"}
KeywordFilters == {NONE, "", "a", "b", "ab", "A"}

NextSearch ==
    \/ Start(2)
    \/ Exit
    \/ \E n \in {"a", "ba"}, t \in {"book", "other"} :
          AddItem(n, "b", t, "c1", "u1", "", 1)
    \/ \E i \in ItemIdArgs : DeleteItem(i, "u1")
    \/ \E i \in ItemIdArgs, kw \in SearchKwargs : ModifyItem(i, "u1", kw)

SpecSearch == Init /\ [][NextSearch]_vars

-----------------------------------------------------------------------------
(* Properties of the Listing Service. *)

StoredItems == disk["items"].data

ElementsOf(seq) == {seq[i] : i \in 1..Len(seq)}

\* C3: delete(itemId, requestorId) and modify(itemId, requestorId, updates)
\* return success iff an Item with that id exists whose owner_id equals
\* requestorId; otherwise (no such id, or another owner) they return the one
\* failure value and leave the collection and its snapshot unchanged.
C3_OwnershipGate ==
    [][call'.op \in {"delete_item", "modify_item"} =>
        LET allowed == \E i \in 1..Len(items) :
                          /\ items[i].item_id = call'.args[1]
                          /\ items[i].owner_id = call'.args[2]
        IN  /\ call'.ret = (IF allowed THEN "True" ELSE "False")
            /\ ~allowed => (items' = items /\ disk' = disk)]_vars

\* C3 witness: a modify by a user who is not the owner of an existing Item
\* has just failed.
C3_Witness ==
    /\ call.op = "modify_item" /\ call.ret = "False"
    /\ \E i \in 1..Len(items) : /\ items[i].item_id = call.args[1]
                                /\ items[i].owner_id # call.args[2]

\* C4: for every type filter and keyword filter (absent, empty, the sentinel
\* "all types" included), every Item that search returns is returned by
\* listPublished.
C4_SearchWithinPublished ==
    \A t \in TypeFilters, k \in KeywordFilters :
        ElementsOf(search_items(items, t, k)) \subseteq
            ElementsOf(get_all_items(items))

\* C4 witness: an Item that matches a type filter and a keyword is left out
\* of the search result because it is not published, while another Item is
\* returned.
C4_Witness ==
    \E i \in 1..Len(items) :
        /\ items[i].status # StatusPublished
        /\ items[i].item_type = "book"
        /\ Contains(items[i].item_name, "a")
        /\ search_items(items, "book", "a") # <<>>
        /\ items[i] \notin ElementsOf(search_items(items, "book", "a"))

TypeMatches(i, typeFilter) ==
    typeFilter \in {NONE, "", AllTypes} \/ i.item_type = typeFilter

KeywordMatches(i, keywordFilter) ==
    \/ keywordFilter \in {NONE, ""}
    \/ Contains(i.item_name, keywordFilter)
    \/ Contains(i.description, keywordFilter)

ByType(its, t) == SelectSeq(its, LAMBDA i : TypeMatches(i, t))
ByKeyword(its, k) == SelectSeq(its, LAMBDA i : KeywordMatches(i, k))
ByStatus(its) == SelectSeq(its, LAMBDA i : i.status = StatusPublished)

\* C16: search(typeFilter, keywordFilter) returns, in insertion order,
\* exactly the Items whose type passes the type filter (absent, empty and
\* "all types" pass everything), whose name or description contains the
\* keyword (absent and empty pass everything) and whose status is
\* published; applying the three filters in any order gives that result.
C16_SearchConjunction ==
    \A t \in TypeFilters, k \in KeywordFilters :
        LET result == search_items(items, t, k)
        IN  /\ result = SelectSeq(items, LAMBDA i : /\ TypeMatches(i, t)
                                                    /\ KeywordMatches(i, k)
                                                    /\ i.status = StatusPublished)
            /\ result = ByStatus(ByKeyword(ByType(items, t), k))
            /\ result = ByKeyword(ByStatus(ByType(items, t)), k)
            /\ result = ByKeyword(ByType(ByStatus(items), t), k)
            /\ result = ByStatus(ByType(ByKeyword(items, k), t))
            /\ result = ByType(ByStatus(ByKeyword(items, k)), t)
            /\ result = ByType(ByKeyword(ByStatus(items), k), t)

\* C16 witness: two Items of different types, the keyword "b" is in the
\* descriptions only, and each of the type filter and the status filter
\* leaves one Item out of some search.
C16_Witness ==
    /\ Len(items) = 2
    /\ items[1].item_type = "book" /\ items[2].item_type = "other"
    /\ items[1].status = StatusPublished /\ items[2].status = StatusTraded
    /\ search_items(items, "book", "b") = <<items[1]>>
    /\ search_items(items, AllTypes, "b") = <<items[1]>>
    /\ search_items(items, "other", NONE) = <<>>

\* C30: when the owner changes an Item's status from published to traded or
\* delisted through modify, the Item is no longer in listPublished() nor in
\* any search result, and is still in listByOwner(owner); when the owner
\* sets the status to published the Item is in listPublished(), after the
\* published Items inserted before it and before those inserted after it.
\* A modify moves no Item.
C30_StatusVisibility ==
    [][(call'.op = "modify_item" /\ call'.ret = "True"
        /\ "status" \in DOMAIN call'.args[3]) =>
        \A k \in 1..Len(items) :
            (items[k].item_id = call'.args[1]) =>
                LET new == items'[k]
                    owner == call'.args[2]
                    listed == get_all_items(items')
                IN  /\ Len(items') = Len(items)
                    /\ \A j \in 1..Len(items) :
                          items'[j].item_id = items[j].item_id
                    /\ (/\ items[k].status = StatusPublished
                        /\ call'.args[3].status \in {StatusTraded, StatusDelisted})
                          => /\ new \notin ElementsOf(listed)
                             /\ \A t \in TypeFilters, w \in KeywordFilters :
                                   new \notin ElementsOf(search_items(items', t, w))
                             /\ new \in ElementsOf(get_user_items(items', owner))
                    /\ call'.args[3].status = StatusPublished
                          => LET r == 1 + Cardinality({j \in 1..(k - 1) :
                                         items'[j].status = StatusPublished})
                             IN  /\ r <= Len(listed)
                                 /\ listed[r] = new
                                 /\ new \in ElementsOf(get_user_items(items', owner))]_vars

\* C30 witness: the owner has just set the first of two Items to delisted;
\* listPublished() holds the second Item only and listByOwner holds both.
C30_Witness ==
    /\ call.op = "modify_item" /\ call.ret = "True"
    /\ call.args[3] = [status |-> StatusDelisted]
    /\ Len(items) = 2
    /\ items[1].item_id = call.args[1]
    /\ get_all_items(items) = <<items[2]>>
    /\ get_user_items(items, call.args[2]) = items

\* C11: under any sequence of Listing Service operations, modify with any
\* fieldUpdates included, an Item keeps the owner_id it was published with:
\* no step changes the owner_id of the Item that bears a given id.
C11_OwnerImmutable ==
    [][\A i \in 1..Len(items), j \in 1..Len(items') :
          items'[j].item_id = items[i].item_id =>
              items'[j].owner_id = items[i].owner_id]_vars

ItemStatuses == {StatusPublished, StatusTraded, StatusDelisted}

\* C13: in every state reachable by publish, modify and delete calls, every
\* Item's status is one of published, traded, delisted, and the Item that a
\* publish has just appended has status published.
C13_ItemStatusDomain ==
    /\ \A i \in 1..Len(items) : items[i].status \in ItemStatuses
    /\ call.op = "add_item" => items[Len(items)].status = StatusPublished

-----------------------------------------------------------------------------
(* The Catalog Service: addType, modifyType, the deletion workflow, with   *)
(* Items that use the types, and restarts.                                 *)

TypeIdArgs == {"1", Uuid(2), "no such id"}
TypeNames == {"book", "toys"}

NextTypes ==
    \/ Start(2)
    \/ Exit
    \/ \E n \in TypeNames, a \in {<<>>, <<"brand">>} : AddItemType(n, a)
    \/ \E i \in TypeIdArgs, n \in {NONE, "", "toys"}, a \in {NONE, <<>>, <<"size">>} :
          ModifyItemType(i, n, a)
    \/ \E i \in TypeIdArgs : DeleteType(i, 2)
    \/ \E t \in TypeNames : AddItem("a", "b", t, "c1", "u1", "", 1)
    \/ \E i \in {Uuid(2), Uuid(3)} : DeleteItem(i, "u1")

SpecTypes == Init /\ [][NextTypes]_vars

-----------------------------------------------------------------------------
(* The Request Service: submit and decide, restarts. *)

AppIdArgs == {Uuid(2), Uuid(3), "no such id"}
DecideStatuses == {AppApproved, AppRejected, AppPending, "on hold"}

NextRequests ==
    \/ Start(2)
    \/ Exit
    \/ \E t \in {AppBecomeAdmin, AppModifyType} : AddApplication(t, "x", "u1", 1)
    \/ \E i \in AppIdArgs, st \in DecideStatuses : ProcessApplication(i, st)

SpecRequests == Init /\ [][NextRequests]_vars

-----------------------------------------------------------------------------
(* The whole program: one process at a time, every mutating operation of   *)
(* every controller and both GUI workflows, with one input each where the  *)
(* choice of input does not matter to the other services.                  *)

Next ==
    \/ Start(2)
    \/ Exit
    \/ Register("bob", "pw", "c1")
    \/ Login("bob", "pw")
    \/ Logout
    \/ ModifyUserInfo(NONE, "c2")
    \/ AddItem("a", "b", "toys", "c1", Uuid(2), "", 1)
    \/ DeleteItem(Uuid(3), Uuid(2))
    \/ ModifyItem(Uuid(3), Uuid(2), [status |-> StatusTraded])
    \/ AddItemType("toys", <<"brand">>)
    \/ ModifyItemType("1", NONE, <<"size">>)
    \/ \E i \in {"1", Uuid(3)} : DeleteType(i, 2)
    \/ AddDemand("book", "x", Uuid(2), 1)
    \/ AddApplication(AppBecomeAdmin, "x", Uuid(2), 1)
    \/ \E i \in {Uuid(3), Uuid(4)} : ProcessApplication(i, AppRejected)
    \/ \E i \in {Uuid(3), Uuid(4)} : ApproveApplication(i, 2)
    \/ \E i \in {Uuid(3), Uuid(4)} : RejectApplication(i)

Spec == Init /\ [][Next]_vars

-----------------------------------------------------------------------------
(* Properties of the Request Service, the Catalog Service and of storage. *)

AppStatuses == {AppPending, AppApproved, AppRejected}

\* C5 (as claimed): under any sequence of submit and decide calls every
\* Application's status is one of pending, approved, rejected, a new
\* Application is pending, and a status changes only from pending to
\* approved or from pending to rejected: a non-pending status never changes.
C5_StatusTransitions ==
    /\ [](\A i \in 1..Len(applications) :
             applications[i].app_status \in AppStatuses)
    /\ [][(pc = "on" /\ pc' = "on") =>
            /\ Len(applications') >= Len(applications)
            /\ \A i \in (Len(applications) + 1)..Len(applications') :
                  applications'[i].app_status = AppPending
            /\ \A i \in 1..Len(applications) :
                  \/ applications'[i].app_status = applications[i].app_status
                  \/ /\ applications[i].app_status = AppPending
                     /\ applications'[i].app_status \in {AppApproved, AppRejected}]_vars

\* C8: addType(name, attributes) returns failure whenever an ItemType of
\* exactly that name exists, and then the ItemType collection and its stored
\* snapshot are unchanged; otherwise it returns success, the collection is
\* the old one with one new type of that name and those attributes appended,
\* and the snapshot holds the new collection.
C8_AddTypeDuplicate ==
    [][call'.op = "add_item_type" =>
        LET n == Len(item_types)
            duplicate == \E i \in 1..n : item_types[i].type_name = call'.args[1]
        IN  /\ duplicate =>
                  /\ call'.ret = "False"
                  /\ item_types' = item_types
                  /\ disk'["item_types"] = disk["item_types"]
            /\ ~duplicate =>
                  /\ call'.ret = "True"
                  /\ Len(item_types') = n + 1
                  /\ SubSeq(item_types', 1, n) = item_types
                  /\ item_types'[n + 1].type_name = call'.args[1]
                  /\ item_types'[n + 1].attributes = call'.args[2]
                  /\ disk'["item_types"].data = item_types']_vars

\* C8 witness: a type was added and a second addType of its name has just
\* returned failure.
C8_Witness ==
    /\ call.op = "add_item_type" /\ call.ret = "False"
    /\ Len(item_types) = Len(DefaultTypes) + 1
    /\ item_types[Len(item_types)].type_name = call.args[1]

\* The files whose collection an operation mutates.
FilesOf(op) ==
    CASE op \in {"register", "modify_user_info"} -> {"users"}
      [] op \in {"add_item", "delete_item", "modify_item"} -> {"items"}
      [] op \in {"add_item_type", "modify_item_type", "delete_type"} -> {"item_types"}
      [] op = "add_demand" -> {"demands"}
      [] op \in {"add_application", "process_application", "reject_application"}
            -> {"applications"}
      [] op = "approve_application" -> {"applications", "users"}
      [] OTHER -> {}

\* C10 (as claimed): whenever a mutating operation of any service or
\* workflow has returned success, the stored snapshot of each collection it
\* mutates equals the collection the long-lived service holds in memory.
C10_SnapshotEqualsMemory ==
    (pc = "on" /\ call.ret = "True") =>
        \A f \in FilesOf(call.op) :
            disk[f].exists /\ disk[f].data = Memory(f)

\* The part of C10 that the code keeps: the same, for every operation of the
\* controllers and the type deletion, and for the Application collection
\* under the approval workflow.
SnapshotEqualsMemoryButApprovedUsers ==
    (pc = "on" /\ call.ret = "True") =>
        \A f \in FilesOf(call.op) :
            (call.op = "approve_application" /\ f = "users")
                \/ (disk[f].exists /\ disk[f].data = Memory(f))

\* C17: the type-deletion workflow changes the ItemType collection only by
\* removing the ItemType of the given id, and only if, in the state in which
\* the workflow starts (the check), no Item of the stored Item collection has
\* that ItemType's name as its type name; when some stored Item has it, the
\* ItemType collection and its snapshot are left unchanged.
C17_CheckThenDelete ==
    [][call'.op = "delete_type" =>
        LET withId == {i \in 1..Len(item_types) :
                          item_types[i].type_id = call'.args[1]}
            referenced(i) == \E k \in 1..Len(StoredItems) :
                                StoredItems[k].item_type = item_types[i].type_name
        IN  /\ item_types' # item_types =>
                  \E i \in withId :
                      /\ ~referenced(i)
                      /\ item_types' = RemoveAt(item_types, i)
                      /\ disk'["item_types"].data = item_types'
            /\ (\E i \in withId : referenced(i)) =>
                  /\ item_types' = item_types
                  /\ disk' = disk
                  /\ call'.ret = "False"]_vars

\* C17 witness: the deletion of a type that a stored Item references has
\* just been refused; the type is still in the collection.
C17_Witness ==
    /\ call.op = "delete_type" /\ call.ret = "False"
    /\ \E i \in 1..Len(item_types), k \in 1..Len(StoredItems) :
          /\ item_types[i].type_id = call.args[1]
          /\ StoredItems[k].item_type = item_types[i].type_name

\* C25: modifyType(id, newName, newAttributes) returns notFound and changes
\* nothing when no ItemType has that id; otherwise it returns success, the
\* first ItemType of that id has the new name only if a non-empty newName is
\* given and the new attribute list only if a non-empty newAttributes is
\* given, and its id, its position and every other ItemType are unchanged.
C25_ModifyType ==
    [][call'.op = "modify_item_type" =>
        LET newName == call'.args[2]
            newAttributes == call'.args[3]
            withId == {i \in 1..Len(item_types) :
                          item_types[i].type_id = call'.args[1]}
        IN  /\ withId = {} =>
                  /\ call'.ret = "False"
                  /\ item_types' = item_types
                  /\ disk' = disk
            /\ withId # {} =>
                  /\ call'.ret = "True"
                  /\ Len(item_types') = Len(item_types)
                  /\ \E k \in withId :
                        /\ \A i \in 1..Len(item_types) :
                              i # k => item_types'[i] = item_types[i]
                        /\ item_types'[k].type_id = item_types[k].type_id
                        /\ item_types'[k].type_name =
                              IF newName \in {NONE, ""}
                              THEN item_types[k].type_name ELSE newName
                        /\ item_types'[k].attributes =
                              IF newAttributes = NONE \/ Len(newAttributes) = 0
                              THEN item_types[k].attributes
                              ELSE newAttributes]_vars

\* C25 witness: the type added after the defaults has just got a new
\* attribute list, with an empty newName; it keeps its name and its place
\* after the six defaults.
C25_Witness ==
    /\ call.op = "modify_item_type" /\ call.ret = "True"
    /\ call.args[1] = Uuid(2) /\ call.args[2] = ""
    /\ Len(item_types) = Len(DefaultTypes) + 1
    /\ item_types[Len(item_types)].type_id = Uuid(2)
    /\ item_types[Len(item_types)].type_name = "toys"
    /\ item_types[Len(item_types)].attributes = <<"size">>

StoredTypes == disk["item_types"].data

\* C27: constructing the Catalog Service adds the six default ItemTypes, in
\* the order book, dorm goods, electronics, clothing, sports, other, and
\* stores them, if and only if the loaded collection is empty; when it is
\* not empty, the collection is the loaded one and storage is unchanged, so
\* a restart never duplicates the defaults.
C27_SeedIffEmpty ==
    [][(call'.op = "start" /\ call'.ret # Raised) =>
        IF StoredTypes = <<>>
        THEN /\ [i \in 1..Len(item_types') |-> item_types'[i].type_name] =
                   <<"book", "dorm goods", "electronics", "clothing", "sports",
                     "other">>
             /\ item_types' = DefaultTypes
             /\ disk'["item_types"].exists
             /\ StoredTypes' = item_types'
        ELSE /\ item_types' = StoredTypes
             /\ disk'["item_types"] = disk["item_types"]]_vars

\* C27 witness: the service was constructed over storage from which the
\* first default had been deleted and to which a type had been added; it
\* holds the five other defaults and the added type.
C27_Witness ==
    /\ call.op = "start"
    /\ Len(item_types) = Len(DefaultTypes)
    /\ item_types[1].type_id = "2"
    /\ item_types[Len(item_types)].type_id = Uuid(2)

\* C12: in every state reachable by Catalog Service operations (the seed,
\* addType, modifyType with any new name, type deletion), no two ItemTypes
\* of the collection have the same name.
C12_TypeNameUnique ==
    \A i, j \in 1..Len(item_types) :
        item_types[i].type_name = item_types[j].type_name => i = j

-----------------------------------------------------------------------------
(* The Snapshot Store on its own: a DataManager saves and loads            *)
(* collections of every entity class, drawn from the records below.        *)

ClassOf(filename) ==
    CASE filename = "users" -> "User"
      [] filename = "items" -> "Item"
      [] filename = "item_types" -> "ItemType"
      [] filename = "demands" -> "Demand"
      [] filename = "applications" -> "Application"

\* data_manager.save_data(filename, <the collection>)
SaveData(filename) ==
    /\ pc = "on"
    /\ disk' = save_data(disk, filename, Memory(filename))
    /\ Called("save_data", <<filename>>, NONE)
    /\ UNCHANGED <<peer, pc, users, current_user, items, item_types, demands,
                   applications, next_uuid>>

\* <the collection> = data_manager.load_data(filename, entity_class)
LoadData(filename, now) ==
    /\ pc = "on"
    /\ LET loaded == load_data(disk, filename, ClassOf(filename), now)
       IN  /\ users' = IF filename = "users" THEN loaded ELSE users
           /\ items' = IF filename = "items" THEN loaded ELSE items
           /\ item_types' = IF filename = "item_types" THEN loaded ELSE item_types
           /\ demands' = IF filename = "demands" THEN loaded ELSE demands
           /\ applications' = IF filename = "applications" THEN loaded
                              ELSE applications
    /\ Called("load_data", <<filename>>, NONE)
    /\ UNCHANGED <<peer, pc, disk, current_user, next_uuid>>

SeqsUpTo(S, n) == UNION {[1..k -> S] : k \in 0..n}

SomeUsers ==
    {User("id1", "admin", "123456", "sysadmin", RoleAdmin),
     User("id2", "bob", "pw", "", RoleOrdinary),
     User("id3", "Bob", "", "c1", RoleOrdinary)}

SomeItems ==
    {Item("id1", "a", "b", "book", "c1", "u1", "", StatusPublished, 1),
     Item("id2", "ab", "", "toys", "", "u2", "img", StatusTraded, 1),
     Item("id1", "a", "b", "book", "c1", "u1", "", StatusDelisted, 3)}

SomeItemTypes ==
    {ItemType("1", "book", <<"author", "ISBN">>),
     ItemType("id2", "toys", <<>>),
     ItemType("id3", "", <<"size">>)}

SomeDemands ==
    {Demand("id1", "book", "x", "u1", 1),
     Demand("id2", "", "", "u2", 3)}

SomeApplications ==
    {Application("id1", AppBecomeAdmin, "x", "u1", AppPending, 1),
     Application("id2", AppModifyType, "", "u2", AppApproved, 1),
     Application("id3", "", "x", "u1", AppRejected, 3)}

InitRoundTrip ==
    /\ pc = "on"
    /\ disk = NoFiles
    /\ current_user = 0
    /\ next_uuid = 1
    /\ peer = [pc |-> "off", items |-> <<>>]
    /\ call = [op |-> "none", args |-> <<>>, ret |-> NONE]
    /\ users \in SeqsUpTo(SomeUsers, MaxLen)
    /\ items \in SeqsUpTo(SomeItems, MaxLen)
    /\ item_types \in SeqsUpTo(SomeItemTypes, MaxLen)
    /\ demands \in SeqsUpTo(SomeDemands, MaxLen)
    /\ applications \in SeqsUpTo(SomeApplications, MaxLen)
    /\ Cardinality({f \in FileNames : Memory(f) # <<>>}) <= 1

NextRoundTrip ==
    \/ \E f \in FileNames : SaveData(f)
    \/ \E f \in FileNames : LoadData(f, 2)

SpecRoundTrip == InitRoundTrip /\ [][NextRoundTrip]_vars

\* C6: for every entity kind and every sequence of records, the empty one
\* included, load(name, factory) right after save(name, items) returns a
\* sequence equal to items: same length, same order, and in every place a
\* record with the same id and the same value in every field.
C6_RoundTrip ==
    [][(/\ call.op = "save_data"
        /\ call'.op = "load_data"
        /\ call'.args = call.args)
          => \A f \in FileNames :
                /\ Len(Memory(f)') = Len(Memory(f))
                /\ \A i \in 1..Len(Memory(f)) :
                      /\ DOMAIN Memory(f)'[i] = DOMAIN Memory(f)[i]
                      /\ \A k \in DOMAIN Memory(f)[i] :
                            Memory(f)'[i][k] = Memory(f)[i][k]]_vars

\* C6 witness: two Items that differ in every optional field, one created
\* at another time than the load, were saved and have just been loaded.
C6_Witness ==
    /\ call.op = "load_data" /\ call.args = <<"items">>
    /\ disk["items"].exists
    /\ Len(items) = 2
    /\ items[1].status # items[2].status
    /\ items[1].image # items[2].image
    /\ items[1].create_time = 3

-----------------------------------------------------------------------------
(* The Snapshot Store over a data directory written by an older version:   *)
(* a file is absent, or holds records some of which lack optional fields.  *)

Without(data, keys) == [k \in DOMAIN data \ keys |-> data[k]]

\* The records that lack a field are those whose value of it was not the
\* default.
StoredRecords(filename) ==
    CASE filename = "users" ->
            {User_to_dict(u) : u \in SomeUsers} \cup
            {Without(User_to_dict(u), {"role"}) :
                u \in {x \in SomeUsers : x.role # RoleOrdinary}}
      [] filename = "items" ->
            LET changed == {x \in SomeItems : x.status # StatusPublished}
            IN  {Item_to_dict(i) : i \in SomeItems} \cup
                {Without(Item_to_dict(i), {"status"}) : i \in changed} \cup
                {Without(Item_to_dict(i), {"image"}) :
                    i \in {x \in changed : x.image # ""}} \cup
                {Without(Item_to_dict(i), {"status", "image", "create_time"}) :
                    i \in changed}
      [] filename = "item_types" ->
            {ItemType_to_dict(t) : t \in SomeItemTypes}
      [] filename = "demands" ->
            {Demand_to_dict(x) : x \in SomeDemands} \cup
            {Without(Demand_to_dict(x), {"create_time"}) : x \in SomeDemands}
      [] filename = "applications" ->
            {Application_to_dict(a) : a \in SomeApplications} \cup
            {Without(Application_to_dict(a), {"app_status"}) :
                a \in {x \in SomeApplications : x.app_status # AppPending}}

InitStored ==
    /\ pc = "on"
    /\ users = <<>>
    /\ items = <<>>
    /\ item_types = <<>>
    /\ demands = <<>>
    /\ applications = <<>>
    /\ current_user = 0
    /\ next_uuid = 1
    /\ peer = [pc |-> "off", items |-> <<>>]
    /\ call = [op |-> "none", args |-> <<>>, ret |-> NONE]
    /\ \E f \in FileNames, e \in BOOLEAN :
          \E data \in SeqsUpTo(StoredRecords(f), IF e THEN MaxLen ELSE 0) :
              disk = [NoFiles EXCEPT ![f] = [exists |-> e, data |-> data,
                                             writable |-> TRUE]]

SpecStored == InitStored /\ [][NextRoundTrip]_vars

\* C19: load of a collection that was never saved returns the empty
\* sequence; load of stored records returns one record for each, in order,
\* with every stored field kept, and a missing optional field never fails
\* but reads as its default: a User without role is ordinary, an Item
\* without status is published and without image has the empty image, an
\* Application without status is pending.
C19_LoadDefaults ==
    [][\A f \in FileNames :
        (call'.op = "load_data" /\ call'.args = <<f>>) =>
        LET stored == disk[f].data
            loaded == Memory(f)'
            default(k) == CASE k = "role" -> RoleOrdinary
                            [] k = "status" -> StatusPublished
                            [] k = "image" -> ""
                            [] k = "app_status" -> AppPending
                            [] OTHER -> NONE
        IN  /\ ~disk[f].exists => loaded = <<>>
            /\ disk[f].exists =>
                  /\ Len(loaded) = Len(stored)
                  /\ \A i \in 1..Len(stored) :
                        \A k \in DOMAIN loaded[i] \ {"create_time"} :
                            loaded[i][k] = IF k \in DOMAIN stored[i]
                                           THEN stored[i][k] ELSE default(k)]_vars

\* C19 witness: two Items have just been loaded from a file in which the
\* first has neither status nor image and the second is traded with an
\* image.
C19_Witness ==
    /\ call.op = "load_data" /\ call.args = <<"items">>
    /\ Len(items) = 2 /\ Len(StoredItems) = 2
    /\ DOMAIN StoredItems[1] \cap {"status", "image"} = {}
    /\ items[1].status = StatusPublished /\ items[1].image = ""
    /\ items[2].status = StatusTraded /\ items[2].image = "img"

-----------------------------------------------------------------------------
(* The services over storage whose files can become read-only: the write   *)
(* of save_data then fails.                                                *)

FailingFiles == {"users", "items", "applications"}

NextFailing ==
    \/ Start(2)
    \/ Exit
    \/ \E f \in FailingFiles, w \in BOOLEAN : Chmod(f, w)
    \/ Register("bob", "pw", "c1")
    \/ AddItem("a", "b", "book", "c1", "u1", "", 1)
    \/ \E i \in {Uuid(2), Uuid(3)} : DeleteItem(i, "u1")
    \/ AddApplication(AppBecomeAdmin, "x", "u1", 1)
    \/ \E i \in {Uuid(2), Uuid(3)} : ProcessApplication(i, AppApproved)

SpecFailing == Init /\ [][NextFailing]_vars

MutatingOps ==
    {"register", "modify_user_info", "add_item", "delete_item", "modify_item",
     "add_item_type", "modify_item_type", "add_demand", "add_application",
     "process_application"}

\* C18: when the write of save fails during a mutating operation, the
\* operation does not return success: no mutating operation returns success
\* in a step in which the write of its collection's file raises.
C18_SaveFailureNotSwallowed ==
    [][(/\ call'.op \in MutatingOps
        /\ \E f \in FilesOf(call'.op) : save_raises(disk, f))
          => call'.ret # "True"]_vars

\* C18 witness: register has just been left by the exception of save_data;
\* the new User is in memory and not in the stored collection.
C18_Witness ==
    /\ call.op = "register" /\ call.ret = Raised
    /\ "bob" \in NamesOf(users)
    /\ "bob" \notin NamesOf(StoredUsers)

-----------------------------------------------------------------------------
(* Two processes of the Listing Service on one data directory, their       *)
(* operations interleaved in any order.                                    *)

NextTwo ==
    \/ Start(2)
    \/ Exit
    \/ PeerStart(2)
    \/ PeerExit
    \/ AddItem("a", "b", "book", "c1", "u1", "", 1)
    \/ \E i \in ItemIdArgs : DeleteItem(i, "u1")
    \/ PeerAddItem("ab", "b", "book", "c2", "u2", "", 1)
    \/ \E i \in ItemIdArgs : PeerDeleteItem(i, "u2")

SpecTwo == Init /\ [][NextTwo]_vars

DictsOf(seq) == [i \in 1..Len(seq) |-> to_dict(seq[i])]

\* C20: with two processes on the same storage, the stored Item collection
\* after each save is the in-memory collection of the process that made the
\* save, whatever the other process had stored before, and publish returns
\* success all the same: a lost update is reported by no operation.
C20_LastWriterWins ==
    [][/\ call'.op \in {"add_item", "delete_item"} /\ call'.ret = "True"
          => StoredItems' = DictsOf(items')
       /\ call'.op \in {"peer.add_item", "peer.delete_item"} /\ call'.ret = "True"
          => StoredItems' = DictsOf(peer'.items)
       /\ call'.op \in {"add_item", "peer.add_item"} => call'.ret = "True"]_vars

\* C20 witness: the second process has just published with success, and the
\* Item that the first process published and persisted before, and still
\* holds in memory, is absent from storage.
C20_Witness ==
    /\ call.op = "peer.add_item" /\ call.ret = "True"
    /\ pc = "on" /\ Len(items) = 1
    /\ \A k \in 1..Len(StoredItems) : StoredItems[k].item_id # items[1].item_id
    /\ Len(StoredItems) = 1

-----------------------------------------------------------------------------
(* The Demand Service: publish and the two listings, with restarts. *)

NextDemands ==
    \/ Start(2)
    \/ Exit
    \/ \E t \in TypeNames, p \in OwnerIds, now \in {1, 3} :
          AddDemand(t, "x", p, now)

SpecDemands == Init /\ [][NextDemands]_vars

StoredDemands == disk["demands"].data

IsPrefix(s, t) == Len(s) <= Len(t) /\ SubSeq(t, 1, Len(s)) = s

\* C21: the Demand collection is append-only.  While the service is up,
\* every step leaves listAll() as it was or adds one Demand at its end, and
\* publish adds exactly one, made of its arguments; listAll() is the stored
\* collection, which no step shortens or changes, so after a restart every
\* Demand is listed again with the same fields in the same order.
C21_DemandsAppendOnly ==
    /\ [](pc = "on" => get_all_demands(demands) = StoredDemands)
    /\ [][/\ IsPrefix(StoredDemands, StoredDemands')
          /\ (pc = "on" /\ pc' = "on") =>
                /\ IsPrefix(get_all_demands(demands), get_all_demands(demands'))
                /\ Len(demands') <= Len(demands) + 1
          /\ call'.op = "add_demand" =>
                LET listed == get_all_demands(demands')
                    new == listed[Len(listed)]
                IN  /\ Len(listed) = Len(demands) + 1
                    /\ new.demand_type = call'.args[1]
                    /\ new.description = call'.args[2]
                    /\ new.publisher_id = call'.args[3]]_vars

\* C21 witness: after a restart the service lists two Demands of different
\* publishers, published at different times, in the order of publication.
C21_Witness ==
    /\ call.op = "start"
    /\ Len(get_all_demands(demands)) = 2
    /\ demands[1].publisher_id = "u2" /\ demands[2].publisher_id = "u1"
    /\ demands[1].create_time = 3 /\ demands[2].create_time = 1
    /\ get_user_demands(demands, "u1") = <<demands[2]>>

StoredApplications == disk["applications"].data

\* C23: decide(applicationId, newStatus) returns failure and changes no
\* Application when no Application has that id; when one has it, decide
\* returns success and that Application's status is newStatus afterwards,
\* whatever the status was and whatever newStatus is, its other fields and
\* every other Application being unchanged; the result is stored.
C23_DecideOverwrites ==
    [][call'.op = "process_application" =>
        LET withId == {i \in 1..Len(applications) :
                          applications[i].application_id = call'.args[1]}
        IN  /\ withId = {} =>
                  /\ call'.ret = "False"
                  /\ applications' = applications
                  /\ disk' = disk
            /\ withId # {} =>
                  /\ call'.ret = "True"
                  /\ Len(applications') = Len(applications)
                  /\ \A i \in 1..Len(applications) :
                        applications'[i] =
                            IF i \in withId
                            THEN [applications[i] EXCEPT
                                     !.app_status = call'.args[2]]
                            ELSE applications[i]
                  /\ StoredApplications' = applications']_vars

\* C23 witness: decide has just set an Application back to pending while
\* the other Application keeps a status that is none of the three.
C23_Witness ==
    /\ call.op = "process_application" /\ call.ret = "True"
    /\ call.args[2] = AppPending
    /\ Len(applications) = 2
    /\ \E i, j \in 1..2 :
          /\ applications[i].application_id = call.args[1]
          /\ applications[i].app_status = AppPending
          /\ applications[j].app_status = "on hold"

-----------------------------------------------------------------------------
(* The approval workflow: applications are decided only through the        *)
(* approve and reject handlers of the administrator's dialog, next to the  *)
(* operations of the long-lived Auth Service.                              *)

WorkflowAppIds == {Uuid(2), Uuid(3), Uuid(4)}

NextWorkflow ==
    \/ Start(2)
    \/ Exit
    \/ Register("bob", "pw", "c1")
    \/ Login("bob", "pw")
    \/ Logout
    \/ ModifyUserInfo(NONE, "c2")
    \/ \E t \in {AppBecomeAdmin, AppModifyType}, a \in {Uuid(2), "nobody"} :
          AddApplication(t, "x", a, 1)
    \/ \E i \in WorkflowAppIds : ApproveApplication(i, 2)
    \/ \E i \in WorkflowAppIds : RejectApplication(i)

SpecWorkflow == Init /\ [][NextWorkflow]_vars

\* C22: when decisions are made only through the approve and reject
\* workflow, an approve or reject attempt on an Application that is already
\* approved or rejected is refused and changes nothing (no Application, no
\* User, no file), and a stored status that is approved or rejected is the
\* same after every step.
C22_DecidedStaysDecided ==
    [][/\ call'.op \in {"approve_application", "reject_application"} =>
            \A i \in 1..Len(applications) :
                (/\ applications[i].application_id = call'.args[1]
                 /\ applications[i].app_status \in {AppApproved, AppRejected})
                   => /\ call'.ret = "False"
                      /\ applications' = applications
                      /\ users' = users
                      /\ disk' = disk
       /\ \A i \in 1..Len(StoredApplications) :
             StoredApplications[i].app_status \in {AppApproved, AppRejected} =>
                 /\ i <= Len(StoredApplications')
                 /\ StoredApplications'[i] = StoredApplications[i]
       /\ (pc = "on" /\ pc' = "on") =>
             \A i \in 1..Len(applications) :
                 applications[i].app_status \in {AppApproved, AppRejected} =>
                     applications'[i] = applications[i]]_vars

\* C22 witness: a reject of an approved "become administrator" Application
\* has just been refused; the applicant's stored role is administrator.
C22_Witness ==
    /\ call.op = "reject_application" /\ call.ret = "False"
    /\ \E i \in 1..Len(applications), u \in 1..Len(StoredUsers) :
          /\ applications[i].application_id = call.args[1]
          /\ applications[i].app_status = AppApproved
          /\ applications[i].app_type = AppBecomeAdmin
          /\ StoredUsers[u].user_id = applications[i].applicant_id
          /\ StoredUsers[u].role = RoleAdmin

-----------------------------------------------------------------------------
(* The approval workflow over storage whose files can become read-only,    *)
(* so that the order of its two writes shows.                              *)

NextApproval ==
    \/ Start(2)
    \/ Exit
    \/ \E f \in {"users", "applications"}, w \in BOOLEAN : Chmod(f, w)
    \/ Register("bob", "pw", "c1")
    \/ AddApplication(AppBecomeAdmin, "x", Uuid(2), 1)
    \/ \E i \in WorkflowAppIds : ApproveApplication(i, 2)
    \/ \E i \in WorkflowAppIds : RejectApplication(i)

SpecApproval == Init /\ [][NextApproval]_vars

\* C24: approving a pending "become administrator" Application whose
\* applicant is a stored User writes the applicant's role as administrator
\* to the stored Users before it sets the status: whenever the approval has
\* set the status to approved the stored role is administrator, also when a
\* write fails; when the workflow returns success, storage holds the
\* promoted role and the approved status.  Rejecting changes no User, in
\* memory or in storage.
C24_PromoteThenApprove ==
    [][/\ call'.op = "approve_application" =>
            \A i \in 1..Len(applications), u \in 1..Len(StoredUsers) :
                (/\ applications[i].application_id = call'.args[1]
                 /\ applications[i].app_status = AppPending
                 /\ applications[i].app_type = AppBecomeAdmin
                 /\ StoredUsers[u].user_id = applications[i].applicant_id)
                   => /\ applications'[i].app_status = AppApproved =>
                            StoredUsers'[u].role = RoleAdmin
                      /\ call'.ret = "True" =>
                            /\ StoredUsers'[u].role = RoleAdmin
                            /\ applications'[i].app_status = AppApproved
                            /\ StoredApplications'[i].app_status = AppApproved
                      /\ call'.ret \in {"True", Raised}
       /\ call'.op = "reject_application" =>
             users' = users /\ StoredUsers' = StoredUsers]_vars

\* C24 witness: the approval of bob's application has just returned
\* success; storage holds bob as administrator and the Application as
\* approved.
C24_Witness ==
    /\ call.op = "approve_application" /\ call.ret = "True"
    /\ \E i \in 1..Len(StoredApplications), u \in 1..Len(StoredUsers) :
          /\ StoredApplications[i].application_id = call.args[1]
          /\ StoredApplications[i].app_status = AppApproved
          /\ StoredApplications[i].app_type = AppBecomeAdmin
          /\ StoredUsers[u].user_id = StoredApplications[i].applicant_id
          /\ StoredUsers[u].username = "bob"
          /\ StoredUsers[u].role = RoleAdmin

-----------------------------------------------------------------------------
(* Failed saves and the collections in memory. *)

\* C26: if the save inside a mutating operation fails, the service's
\* collection in memory and the stored collection stay consistent: right
\* after an operation that the exception of save_data left, the collection
\* in memory holds what storage holds.
C26_FailedSaveKeepsConsistency ==
    (pc = "on" /\ call.op \in MutatingOps /\ call.ret = Raised) =>
        \A f \in FilesOf(call.op) : DictsOf(Memory(f)) = disk[f].data

-----------------------------------------------------------------------------
(* Promotions and the long-lived Auth Service. *)

\* C28: a promotion is durable.  A stored User whose role is administrator
\* keeps that stored role in every step (register, login, logout,
\* editProfile and the workflows included), and a login that succeeds
\* yields a session User whose role is the stored role of that User.
C28_PromotionDurable ==
    [][/\ \A u \in 1..Len(StoredUsers) :
             StoredUsers[u].role = RoleAdmin =>
                 /\ u <= Len(StoredUsers')
                 /\ StoredUsers'[u].role = RoleAdmin
       /\ (call'.op = "login" /\ call'.ret = "True") =>
             \A u \in 1..Len(StoredUsers') :
                 StoredUsers'[u].user_id = users'[current_user'].user_id =>
                     users'[current_user'].role = StoredUsers'[u].role]_vars

AuthOps == {"register", "login", "logout", "modify_user_info"}

\* In the collection the Auth Service holds, register appends a User of role
\* ordinary and no Auth Service operation changes a role.
AuthKeepsRolesInMemory ==
    [][call'.op \in AuthOps =>
          /\ \A i \in 1..Len(users) : users'[i].role = users[i].role
          /\ (call'.op = "register" /\ call'.ret = "True") =>
                users'[Len(users')].role = RoleOrdinary]_vars

\* A User, in memory or in storage, is administrator only if it is the
\* seeded admin or the applicant of an approved "become administrator"
\* Application.
AdministratorOnlyIfSeededOrApproved ==
    \A us \in {users, StoredUsers} :
        \A u \in 1..Len(us) :
            us[u].role = RoleAdmin =>
                \/ us[u].username = AdminName
                \/ \E a \in 1..Len(StoredApplications) :
                      /\ StoredApplications[a].applicant_id = us[u].user_id
                      /\ StoredApplications[a].app_type = AppBecomeAdmin
                      /\ StoredApplications[a].app_status = AppApproved

\* C29: no Auth Service operation changes a role: register creates a User
\* of role ordinary, and register, login, logout and editProfile leave the
\* role of every User as it was, in the service's collection and in the
\* stored collection.
C29_AuthChangesNoRole ==
    [][call'.op \in AuthOps =>
          /\ \A i \in 1..Len(users) : users'[i].role = users[i].role
          /\ (call'.op = "register" /\ call'.ret = "True") =>
                users'[Len(users')].role = RoleOrdinary
          /\ \A u \in 1..Len(StoredUsers) :
                StoredUsers'[u].role = StoredUsers[u].role]_vars

=============================================================================
